---- MODULE Spec2Model ----
(***************************************************************************)
(* A model of CProcessSpawnSync: ps_spawn_process and the child routine    *)
(* setup_and_execve_child (spawner.c), the descriptor census and the       *)
(* decimal parser (internal-helpers.h), and ps_convert_exit_status.        *)
(*                                                                         *)
(* Two processes are modelled after fork: the parent (ppc) and the child   *)
(* (cpc).  Descriptor tables map a descriptor number to the open file it   *)
(* refers to and its close-on-exec flag.  Every system call that the code  *)
(* checks may fail; its failure is a nondeterministic outcome.             *)
(***************************************************************************)
EXTENDS Integers, Sequences, FiniteSets, TLC

\* ------------------------------------------------------------------ bounds

\* Descriptors 0..NumParentFds-1 may be open in the caller when it calls.
NumParentFds == 3
\* The longest fd-instruction list (psc_fd_setup_count).
MaxInstr == 2
\* The longest string handed to positive_int_parse.
MaxLen == 3
\* The largest status word handed to ps_convert_exit_status.
MaxStatus == 65535

\* ------------------------------------------------------- descriptor tables

\* getdtablesize(): pipe (2), one holding duplicate per instruction and the
\* census directory always find a free descriptor below it.
DTableSize == NumParentFds + MaxInstr + 3

Fds == 0..(DTableSize - 1)

\* Open files.  0 is "no file"; parent descriptor k refers to file k + 1.
NoFile == 0
PipeRd == NumParentFds + 1
PipeWr == NumParentFds + 2
DirFile == NumParentFds + 3

Closed == [file |-> NoFile, cloexec |-> FALSE]

AllClosed == [fd \in Fds |-> Closed]

IsOpen(tbl, fd) == fd \in Fds /\ tbl[fd].file # NoFile

OpenFds(tbl) == {fd \in Fds : tbl[fd].file # NoFile}

SetMax(S) == CHOOSE x \in S : \A y \in S : y <= x

SetMin(S) == CHOOSE x \in S : \A y \in S : x <= y

\* The lowest descriptor number >= min that is not open, -1 when there is none.
LowestFree(tbl, min) ==
    LET free == {fd \in Fds : fd >= min /\ tbl[fd].file = NoFile}
    IN IF free = {} THEN -1 ELSE SetMin(free)

\* close(fd)
CloseFd(tbl, fd) == IF fd \in Fds THEN [tbl EXCEPT ![fd] = Closed] ELSE tbl

\* dup2(oldfd, newfd): newfd refers to oldfd's file, close-on-exec cleared;
\* nothing changes when the two are equal.
Dup2(tbl, oldfd, newfd) ==
    IF oldfd = newfd THEN tbl
    ELSE [tbl EXCEPT ![newfd] = [file |-> tbl[oldfd].file, cloexec |-> FALSE]]

\* A duplicate taken at the lowest free descriptor, whatever the minimum.
DupFdAnywhere(tbl, min) == LowestFree(tbl, 0)

\* fcntl(fd, F_DUPFD_CLOEXEC, min): the descriptor it returns.
DupFdResult(tbl, min) == LowestFree(tbl, min)

\* The duplicate made without the close-on-exec flag (F_DUPFD).
DupFdKeptOnExec(tbl, fd, min) ==
    [tbl EXCEPT ![DupFdResult(tbl, min)] = [file |-> tbl[fd].file, cloexec |-> FALSE]]

\* fcntl(fd, F_DUPFD_CLOEXEC, min): the table afterwards.
DupFdCloexec(tbl, fd, min) ==
    [tbl EXCEPT ![DupFdResult(tbl, min)] = [file |-> tbl[fd].file, cloexec |-> TRUE]]

\* A successful execve closes every close-on-exec descriptor.
ExecTable(tbl) == [fd \in Fds |-> IF tbl[fd].cloexec THEN Closed ELSE tbl[fd]]

\* ---------------------------------------------------------- error records

NoError == [kind |-> "NONE", code |-> "0", extra |-> 0]

PsError(kind, code, extra) == [kind |-> kind, code |-> code, extra |-> extra]

\* errno read after a call that did not set it: whatever it held before.
StaleErrno == "unspecified"

PS_SIG_MAX == 32

\* The signal numbers at which signal() is let fail.
ResetFailSignals == {PS_SIG_MAX - 1}

\* fork()'s return value in the parent.
ChildPid == 7

\* ---------------------------------------------------------------- signals

\* The signal numbers of the Linux build, 1..SIGRTMAX: what sigfillset fills.
Signals == 1..64

\* SIGKILL and SIGSTOP, whose disposition cannot be changed.
Unchangeable == {9, 19}

\* The signals the guard leaves deliverable: SIGABRT, SIGBUS, SIGFPE, SIGILL,
\* SIGKILL, SIGSEGV, SIGSTOP, SIGSYS, SIGTRAP.
AllowList == {6, 7, 8, 4, 9, 11, 19, 31, 5}

\* The signals with a handler installed in the calling process: SIGSEGV,
\* SIGTERM and the real-time signal SIGRTMIN.  The code treats every signal
\* alike, by its number only.
HandlersAtCall == {11, 15, 34}

\* The calling thread's signal mask when it enters ps_spawn_process: SIGUSR1.
MaskAtCall == {10}

\* The open files of the error pipe of another call of ps_spawn_process.
OtherPipeRd == NumParentFds + 4
OtherPipeWr == NumParentFds + 5

\* ------------------------------------------------------------------- state

VARIABLES
    config,         \* ps_process_configuration
    pfd,            \* the parent's descriptor table
    ppc,            \* the parent's position in ps_spawn_process
    error_pid_fd,   \* the parent's error_pid_fd[2]
    scratch,        \* the parent's scratch pointer: "NULL" or "PTR"
    pid,            \* the parent's pid variable
    out_error,      \* *out_error
    ret,            \* ps_spawn_process's return value, -2 before it returns
    cpc,            \* the child's position
    cfd,            \* the child's descriptor table
    c_scratch,      \* the child's scratch array: duplicated_fd of each slot
    child_fd,       \* the child's loop index
    error_pipe,     \* the child's error_pipe parameter
    error,          \* the child's ps_error
    pipe_buf,       \* records in the error pipe
    closes,         \* close() calls the parent made on each pipe end
    frees,          \* free() calls the parent made on the scratch block
    allocated,      \* whether calloc returned a block
    fork_calls,     \* fork() calls
    failed_step,    \* the parent step that failed first, "none" if none
    fork_fds,       \* the descriptor table at fork time
    census_failed,  \* whether a census in the child fell back or was cut short
    handlers,       \* the signals with a handler installed in the process
    sigmask,        \* the calling thread's signal mask
    old_sigmask,    \* the parent's old_sigmask
    c_handlers,     \* the signals with a handler installed in the child
    c_sigmask,      \* the child's signal mask
    step_failed,    \* whether the call of the child's last step reported failure
    o_pc,           \* another thread's call of ps_spawn_process: its position
    o_pid_fd,       \* the other call's error_pid_fd[2]
    ocpc,           \* the other call's child: its position
    ocfd,           \* the other call's child: its descriptor table
    parse_in,       \* positive_int_parse: the argument
    parse_ret,      \* positive_int_parse: the value returned, -2 before
    in_status,      \* ps_convert_exit_status: in_status
    decoded         \* ps_convert_exit_status: the outputs, done once written

spawn_vars == <<config, pfd, ppc, error_pid_fd, scratch, pid,
                out_error, ret, cpc, cfd, c_scratch, child_fd,
                error_pipe, error, pipe_buf, closes, frees, allocated,
                fork_calls, failed_step, fork_fds, census_failed,
                handlers, sigmask, old_sigmask, c_handlers, c_sigmask,
                step_failed, o_pc, o_pid_fd, ocpc, ocfd>>

parse_vars == <<parse_in, parse_ret>>

status_vars == <<in_status, decoded>>

vars == <<spawn_vars, parse_vars, status_vars>>

parent_vars == <<pfd, ppc, error_pid_fd, scratch, pid, out_error, ret,
                 closes, frees, allocated, fork_calls, failed_step,
                 sigmask, old_sigmask>>

child_vars == <<cpc, cfd, c_scratch, child_fd, error_pipe, error, fork_fds,
                census_failed, c_handlers, c_sigmask, step_failed>>

\* The other call and its child.
other_vars == <<o_pc, o_pid_fd, ocpc, ocfd>>

\* What no step of this call or of its child changes.
env_vars == <<handlers, other_vars>>

\* ------------------------------------------------------------------ inputs

MapFd(fd) == [psfd_kind |-> "PS_MAP_FD", psfd_parent_fd |-> fd]

CloseInstr == [psfd_kind |-> "PS_CLOSE_FD", psfd_parent_fd |-> -1]

Instructions == {MapFd(fd) : fd \in 0..(NumParentFds - 1)} \cup {CloseInstr}

InstructionLists == UNION {[1..n -> Instructions] : n \in 0..MaxInstr}

Configs ==
    [psc_fd_setup_instructions : InstructionLists,
     psc_new_session : BOOLEAN,
     psc_close_other_fds : BOOLEAN,
     psc_cwd : BOOLEAN]

\* The caller's descriptor tables: any of the descriptors 0..NumParentFds-1
\* are open, descriptor k on file k + 1, all with or all without close-on-exec
\* (the code never reads the flag, which acts on each descriptor alone).
ParentTables ==
    {[fd \in Fds |-> IF fd \in open THEN [file |-> fd + 1, cloexec |-> flag] ELSE Closed] :
        open \in SUBSET (0..(NumParentFds - 1)), flag \in BOOLEAN}

psc_fd_setup_count == Len(config.psc_fd_setup_instructions)

InitSpawnIdle ==
    /\ error_pid_fd = <<-1, -1>>
    /\ scratch = "NULL"
    /\ pid = -1
    /\ out_error = NoError
    /\ ret = -2
    /\ cpc = "none"
    /\ cfd = AllClosed
    /\ c_scratch = <<>>
    /\ child_fd = 0
    /\ error_pipe = -1
    /\ error = NoError
    /\ pipe_buf = <<>>
    /\ closes = <<0, 0>>
    /\ frees = 0
    /\ allocated = FALSE
    /\ fork_calls = 0
    /\ failed_step = "none"
    /\ fork_fds = AllClosed
    /\ census_failed = FALSE
    /\ handlers = HandlersAtCall
    /\ sigmask = MaskAtCall
    /\ old_sigmask = {}
    /\ c_handlers = {}
    /\ c_sigmask = {}
    /\ step_failed = FALSE
    /\ o_pid_fd = <<-1, -1>>
    /\ ocpc = "none"
    /\ ocfd = AllClosed

NotDecoded == [done |-> FALSE, has_exited |-> FALSE, is_exit_code |-> FALSE, code |-> 0]

InitParseIdle ==
    /\ parse_in = <<>>
    /\ parse_ret = -2

InitStatusIdle ==
    /\ in_status = 0
    /\ decoded = NotDecoded

Init ==
    /\ config \in Configs
    /\ pfd \in ParentTables
    /\ ppc = "pipe"
    /\ o_pc = "off"
    /\ InitSpawnIdle
    /\ InitParseIdle
    /\ InitStatusIdle

\* No spawn is in progress (the specifications of the pure functions).
NoSpawn ==
    /\ config = [psc_fd_setup_instructions |-> <<>>, psc_new_session |-> FALSE,
                 psc_close_other_fds |-> FALSE, psc_cwd |-> FALSE]
    /\ pfd = AllClosed
    /\ ppc = "idle"
    /\ o_pc = "off"
    /\ InitSpawnIdle

\* ------------------------------------------------------ ps_spawn_process

\* The caller passes an out_error that is not NULL.
out_error_set == TRUE

\* if (out_error) { *out_error = error; }
StoreError(e) == IF out_error_set THEN e ELSE out_error

\* error_pid_fd[0] and error_pid_fd[1] of the C array.
ReadEnd == error_pid_fd[1]

WriteEnd == error_pid_fd[2]

\* if (err): a call that returns 0 on success has failed.
Failed(err) == err # 0

\* What a call that returns 0 or -1 may return.
CallResults == {0, -1}

\* goto error_cleanup with the error stored: close the pipe ends that are
\* not -1, free(scratch), check the precondition, return 0.
ErrorCleanup(e) ==
    /\ out_error' = StoreError(e)
    /\ pfd' = CloseFd(CloseFd(pfd, ReadEnd), WriteEnd)
    /\ closes' = <<closes[1] + (IF ReadEnd # -1 THEN 1 ELSE 0),
                   closes[2] + (IF WriteEnd # -1 THEN 1 ELSE 0)>>
    /\ frees' = IF scratch = "PTR" THEN frees + 1 ELSE frees
    /\ IF (~out_error_set) \/ StoreError(e).kind # "NONE"
       THEN ppc' = "returned" /\ ret' = 0
       ELSE ppc' = "trapped" /\ ret' = ret
    /\ UNCHANGED <<error_pid_fd, scratch>>

\* int err = pipe(error_pid_fd); if (err) goto error_cleanup.
Pipe ==
    /\ ppc = "pipe"
    /\ \E err \in CallResults :
          IF Failed(err)
          THEN /\ ErrorCleanup(PsError("PS_ERROR_KIND_PIPE", "EMFILE", 0))
               /\ failed_step' = "pipe"
          ELSE /\ LET r == LowestFree(pfd, 0)
                      t == [pfd EXCEPT ![r] = [file |-> PipeRd, cloexec |-> FALSE]]
                      w == LowestFree(t, 0)
                  IN /\ pfd' = [t EXCEPT ![w] = [file |-> PipeWr, cloexec |-> FALSE]]
                     /\ error_pid_fd' = <<r, w>>
               /\ ppc' = "fcntl"
               /\ UNCHANGED <<out_error, failed_step, closes, frees, ret, scratch>>
    /\ UNCHANGED <<pid, allocated, fork_calls>>
    /\ UNCHANGED <<sigmask, old_sigmask>>
    /\ UNCHANGED <<config, pipe_buf, child_vars, parse_vars, status_vars, env_vars>>

\* err = fcntl(error_pid_fd[1], F_SETFD, FD_CLOEXEC); if (err) goto error_cleanup.
SetCloexec ==
    /\ ppc = "fcntl"
    /\ \E err \in CallResults :
          IF Failed(err)
          THEN /\ ErrorCleanup(PsError("PS_ERROR_KIND_FCNTL", "EBADF", 0))
               /\ failed_step' = "fcntl"
          ELSE /\ pfd' = [pfd EXCEPT ![WriteEnd].cloexec = TRUE]
               /\ ppc' = "calloc"
               /\ UNCHANGED <<out_error, failed_step, closes, frees, ret, scratch,
                              error_pid_fd>>
    /\ UNCHANGED <<pid, allocated, fork_calls>>
    /\ UNCHANGED <<sigmask, old_sigmask>>
    /\ UNCHANGED <<config, pipe_buf, child_vars, parse_vars, status_vars, env_vars>>

\* scratch = calloc(config->psc_fd_setup_count, sizeof(*scratch)); the result
\* is not checked, and may be NULL.
Calloc ==
    /\ ppc = "calloc"
    /\ \E got \in BOOLEAN :
          /\ scratch' = IF got THEN "PTR" ELSE "NULL"
          /\ allocated' = got
    /\ ppc' = "guard"
    /\ UNCHANGED <<pfd, error_pid_fd, pid, out_error, ret, closes, frees,
                   fork_calls, failed_step, sigmask, old_sigmask>>
    /\ UNCHANGED <<config, pipe_buf, child_vars, parse_vars, status_vars, env_vars>>

\* What may happen inside the guard: every call succeeds; sigfillset or a
\* sigdelset fails and pthread_sigmask succeeds; pthread_sigmask fails.
GuardOutcomes == {"ok", "set_failed", "sigmask_failed"}

\* The mask the guard builds: every signal but the allow-list.  A signal
\* whose sigdelset failed (SIGSEGV here) stays in it.
GuardMask(how) ==
    IF how = "set_failed" THEN Signals \ (AllowList \ {11}) ELSE Signals \ AllowList

\* block_everything_but_something_went_seriously_wrong_signals(old_mask) on a
\* thread whose mask is mask: r, the thread's mask afterwards and *old_mask.
\* r collects every result with |=, and pthread_sigmask(SIG_BLOCK, ...) is
\* called whatever the earlier results; SIGKILL and SIGSTOP are never blocked.
block_everything_but_something_went_seriously_wrong_signals(mask, old_mask, how) ==
    IF how = "sigmask_failed"
    THEN [r |-> -1, mask |-> mask, old_mask |-> old_mask]
    ELSE [r |-> IF how = "ok" THEN 0 ELSE -1,
          mask |-> (mask \cup GuardMask(how)) \ Unchangeable,
          old_mask |-> mask]

\* The guard's result is not looked at.
GuardResultIgnored(err) == FALSE

\* if (err) after the signal guard: a failed guard ends the call before fork.
GuardFailed(err) == Failed(err)

\* err = block_everything_but_something_went_seriously_wrong_signals(&old_sigmask);
\* if (err) goto error_cleanup.
Guard ==
    /\ ppc = "guard"
    /\ \E how \in GuardOutcomes :
          LET g == block_everything_but_something_went_seriously_wrong_signals(
                       sigmask, old_sigmask, how)
          IN /\ sigmask' = g.mask
             /\ old_sigmask' = g.old_mask
             /\ IF GuardFailed(g.r)
                THEN /\ ErrorCleanup(PsError("PS_ERROR_KIND_SIGMASK_THREAD", StaleErrno, 0))
                     /\ failed_step' = "guard"
                ELSE /\ ppc' = "fork"
                     /\ failed_step' = IF Failed(g.r) THEN "guard" ELSE failed_step
                     /\ UNCHANGED <<out_error, pfd, closes, frees, ret, scratch,
                                    error_pid_fd>>
    /\ UNCHANGED <<pid, allocated, fork_calls>>
    /\ UNCHANGED <<config, pipe_buf, child_vars, parse_vars, status_vars, env_vars>>

\* if ((pid = fork()) == 0): the child is a copy of the parent, and begins
\* with close(error_pid_fd[0]) before it calls setup_and_execve_child.
Fork ==
    /\ ppc = "fork"
    /\ fork_calls' = fork_calls + 1
    /\ \/ /\ pid' = ChildPid
          /\ cpc' = "signal_reset"
          /\ cfd' = CloseFd(pfd, ReadEnd)
          /\ fork_fds' = pfd
          /\ c_scratch' = [i \in 1..psc_fd_setup_count |-> 0]
          /\ error_pipe' = WriteEnd
          /\ c_handlers' = handlers
          /\ c_sigmask' = sigmask
          /\ UNCHANGED failed_step
       \/ /\ pid' = -1
          /\ failed_step' = "fork"
          /\ UNCHANGED <<cpc, cfd, fork_fds, c_scratch, error_pipe, c_handlers,
                         c_sigmask>>
    /\ ppc' = "restore"
    /\ UNCHANGED <<pfd, error_pid_fd, scratch, out_error, ret, closes,
                   frees, allocated, sigmask, old_sigmask, step_failed>>
    /\ UNCHANGED <<config, pipe_buf, child_fd, error, census_failed,
                   parse_vars, status_vars, env_vars>>

\* The descriptor is closed and its variable keeps the number.
KeptFd(fd) == fd

\* error_pid_fd[1] = -1 after close(error_pid_fd[1]), and the same for [0].
ClearedFd(fd) == -1

\* scratch = NULL after free(scratch).
ClearedScratch(ptr) == "NULL"

\* The parent goes to the drain loop with its write end still open.
KeepWriteEnd(tbl) == tbl

\* close(error_pid_fd[1]) in the parent branch.
CloseWriteEnd(tbl) == CloseFd(tbl, WriteEnd)

\* The parent branch up to the drain loop: restore the mask, then for pid > 0
\* close the write end and free the scratch array, else report fork's failure.
ParentAfterFork ==
    /\ ppc = "restore"
    /\ \E err \in CallResults :
          IF Failed(err)
          THEN /\ ErrorCleanup(PsError("PS_ERROR_KIND_SIGMASK_THREAD", StaleErrno, 0))
               /\ failed_step' = IF failed_step = "none" THEN "restore" ELSE failed_step
               /\ UNCHANGED sigmask
          ELSE IF pid > 0
          THEN /\ sigmask' = old_sigmask
               /\ pfd' = CloseWriteEnd(pfd)
               /\ closes' = [closes EXCEPT ![2] = @ + 1]
               /\ error_pid_fd' = [error_pid_fd EXCEPT ![2] = ClearedFd(@)]
               /\ frees' = IF scratch = "PTR" THEN frees + 1 ELSE frees
               /\ scratch' = ClearedScratch(scratch)
               /\ ppc' = "read"
               /\ UNCHANGED <<out_error, failed_step, ret>>
          ELSE /\ sigmask' = old_sigmask
               /\ ErrorCleanup(PsError("PS_ERROR_KIND_FCNTL", "EAGAIN", 0))
               /\ UNCHANGED failed_step
    /\ UNCHANGED <<pid, allocated, fork_calls>>
    /\ UNCHANGED old_sigmask
    /\ UNCHANGED <<config, pipe_buf, child_vars, parse_vars, status_vars, env_vars>>

\* Whether any process holds the given pipe end open.
HeldOpen(file) ==
    \/ \E fd \in Fds : pfd[fd].file = file
    \/ \E fd \in Fds : cfd[fd].file = file
    \/ \E fd \in Fds : ocfd[fd].file = file

\* One read() of the drain loop and what the loop does with its result, for
\* the results let happen: end-of-file, a record, EINTR (continue), or
\* another failure.  A record is written whole, so a read never returns part
\* of one.
ReadResult(results) ==
    /\ ppc = "read"
    /\ \/ /\ "eof" \in results
          /\ pipe_buf = <<>>
          /\ ~HeldOpen(PipeWr)
          /\ pfd' = CloseFd(pfd, ReadEnd)
          /\ closes' = [closes EXCEPT ![1] = @ + 1]
          /\ error_pid_fd' = [error_pid_fd EXCEPT ![1] = ClearedFd(@)]
          /\ ret' = pid
          /\ ppc' = "returned"
          /\ UNCHANGED <<out_error, failed_step, pipe_buf, frees, scratch>>
       \/ /\ "record" \in results
          /\ pipe_buf # <<>>
          /\ ErrorCleanup(Head(pipe_buf))
          /\ pipe_buf' = Tail(pipe_buf)
          /\ UNCHANGED failed_step
       \/ /\ "EINTR" \in results
          /\ UNCHANGED <<pfd, closes, error_pid_fd, ret, out_error, ppc, failed_step,
                         pipe_buf, frees, scratch>>
       \/ /\ "EIO" \in results
          /\ ErrorCleanup(PsError("PS_ERROR_KIND_READ_FROM_CHILD", "EIO", 0))
          /\ failed_step' = "read"
          /\ UNCHANGED pipe_buf
    /\ UNCHANGED <<pid, allocated, fork_calls>>
    /\ UNCHANGED <<sigmask, old_sigmask>>
    /\ UNCHANGED <<config, child_vars, parse_vars, status_vars, env_vars>>

\* One iteration of the drain loop, whatever read() returns.
Read == ReadResult({"eof", "record", "EINTR", "EIO"})

\* read() returns what the pipe has for it: end-of-file or a record.
ReadDelivers == ReadResult({"eof", "record"})

ParentNext == Pipe \/ SetCloexec \/ Calloc \/ Guard \/ Fork \/ ParentAfterFork \/ Read

\* ------------------------------------------------ the descriptor census

IsDigit(c) == c >= 48 /\ c <= 57

\* positive_int_parse on the characters s with out = acc so far.
RECURSIVE ParseFrom(_, _)
ParseFrom(s, acc) ==
    IF s = <<>> THEN acc
    ELSE IF IsDigit(Head(s)) THEN ParseFrom(Tail(s), acc * 10 + (Head(s) - 48))
         ELSE -1

positive_int_parse(s) == ParseFrom(s, 0)

\* The name of descriptor n in /proc/self/fd: its decimal digits.
RECURSIVE DecimalName(_)
DecimalName(n) ==
    IF n < 10 THEN <<48 + n>> ELSE Append(DecimalName(n \div 10), 48 + (n % 10))

\* highest_possibly_open_fd_dir_linux on the table tbl.  how = "open_failed":
\* open() fails, -1.  Otherwise the directory is opened at the lowest free
\* descriptor and is listed with the others.  how = "read_failed": the first
\* getdents64 fails, which ends the loop with highest_fd_so_far still 0.
\* how = "ok": the maximum of the names that parse, from 0.
highest_possibly_open_fd_dir_linux(tbl, how) ==
    LET dir_fd == LowestFree(tbl, 0)
        listed == OpenFds(tbl) \cup {dir_fd}
        numbers == {positive_int_parse(DecimalName(fd)) : fd \in listed}
    IN CASE how = "open_failed" -> -1
         [] how = "read_failed" -> 0
         [] OTHER -> SetMax(numbers \cup {0})

\* The census result handed on as it is, with no fallback.
CensusWithoutFallback(tbl, how) == highest_possibly_open_fd_dir_linux(tbl, how)

\* highest_possibly_open_fd, the Linux branch.
highest_possibly_open_fd(tbl, how) ==
    LET hi == highest_possibly_open_fd_dir_linux(tbl, how)
    IN IF hi < 0 THEN DTableSize ELSE hi

CensusOutcomes == {"ok", "open_failed", "read_failed"}

\* ------------------------------------------------ setup_and_execve_child

Instr(i) == config.psc_fd_setup_instructions[i + 1]

\* The steps after the optional ones, in the order of the code.
AfterCloseOther == IF config.psc_cwd THEN "chdir" ELSE "execve"

AfterPhaseB == IF config.psc_close_other_fds THEN "close_other" ELSE AfterCloseOther

AfterSetsid == IF psc_fd_setup_count > 0 THEN "phaseA" ELSE AfterPhaseB

AfterMask == IF config.psc_new_session THEN "setsid" ELSE AfterSetsid

\* The loop index a step starts with.
StartIndex(step) == IF step = "close_other" THEN psc_fd_setup_count ELSE 0

\* goto write_fail with the error record built.
WriteFail(kind, code, extra) ==
    /\ error' = PsError(kind, code, extra)
    /\ cpc' = "write_fail"

ChildFrame ==
    UNCHANGED <<config, parent_vars, error_pipe, fork_fds,
                parse_vars, status_vars, env_vars>>

\* The signals whose disposition the reset loop sets to default before it
\* reaches signo: for (signo = 1; signo < PS_SIG_MAX; signo++), SIGKILL and
\* SIGSTOP skipped.
ResetBefore(signo) == {s \in 1..(PS_SIG_MAX - 1) : s < signo} \ Unchangeable

\* The loop resetting every signal's disposition: it completes (or stops at
\* the first EINVAL), or signal() fails otherwise at some signal.
SignalReset ==
    /\ cpc = "signal_reset"
    /\ \/ /\ cpc' = "sigprocmask"
          /\ c_handlers' = c_handlers \ ResetBefore(PS_SIG_MAX)
          /\ step_failed' = FALSE
          /\ UNCHANGED error
       \/ \E signo \in ResetFailSignals :
             /\ WriteFail("PS_ERROR_KIND_SIGNAL", "EPERM", signo)
             /\ c_handlers' = c_handlers \ ResetBefore(signo)
             /\ step_failed' = TRUE
    /\ UNCHANGED <<cfd, c_scratch, child_fd, pipe_buf, census_failed, c_sigmask>>
    /\ ChildFrame

\* err = sigprocmask(SIG_SETMASK, &sigset, NULL) != 0;
SigprocMask ==
    /\ cpc = "sigprocmask"
    /\ \/ /\ cpc' = AfterMask
          /\ child_fd' = StartIndex(AfterMask)
          /\ c_sigmask' = {}
          /\ step_failed' = FALSE
          /\ UNCHANGED error
       \/ /\ WriteFail("PS_ERROR_KIND_SIGPROC_MASK", "EINVAL", 0)
          /\ step_failed' = TRUE
          /\ UNCHANGED <<child_fd, c_sigmask>>
    /\ UNCHANGED <<cfd, c_scratch, pipe_buf, census_failed, c_handlers>>
    /\ ChildFrame

\* What setsid() returns: the new session's id, which is the child's pid, or
\* -1 with errno set.
SetsidResults == {ChildPid, -1}

\* err = setsid(); if (err) goto write_fail.  errno was set only when setsid
\* returned -1.
Setsid ==
    /\ cpc = "setsid"
    /\ \E err \in SetsidResults :
          /\ step_failed' = (err = -1)
          /\ IF err # 0
             THEN /\ WriteFail("PS_ERROR_KIND_SETSID", IF err = -1 THEN "EPERM" ELSE StaleErrno, 0)
                  /\ UNCHANGED child_fd
             ELSE /\ cpc' = AfterSetsid
                  /\ child_fd' = StartIndex(AfterSetsid)
                  /\ UNCHANGED error
    /\ UNCHANGED <<cfd, c_scratch, pipe_buf, census_failed, c_handlers, c_sigmask>>
    /\ ChildFrame

\* Phase A, one iteration: a Map duplicates its parent descriptor to one at or
\* above the instruction count, a Close records -1.  The scratch array is
\* written through the pointer calloc returned.
PhaseA ==
    /\ cpc = "phaseA"
    /\ LET setup == Instr(child_fd)
           last == child_fd + 1 = psc_fd_setup_count
       IN \/ /\ ~allocated
             /\ cpc' = "crashed"
             /\ cfd' = AllClosed
             /\ UNCHANGED <<c_scratch, child_fd, error, step_failed>>
          \/ /\ allocated
             /\ setup.psfd_kind = "PS_MAP_FD"
             /\ IsOpen(cfd, setup.psfd_parent_fd)
             /\ DupFdResult(cfd, psc_fd_setup_count) # -1
             /\ cfd' = DupFdCloexec(cfd, setup.psfd_parent_fd, psc_fd_setup_count)
             /\ c_scratch' = [c_scratch EXCEPT ![child_fd + 1] =
                                  DupFdResult(cfd, psc_fd_setup_count)]
             /\ cpc' = IF last THEN "phaseB" ELSE "phaseA"
             /\ child_fd' = IF last THEN 0 ELSE child_fd + 1
             /\ step_failed' = FALSE
             /\ UNCHANGED error
          \/ /\ allocated
             /\ setup.psfd_kind = "PS_MAP_FD"
             /\ \E e \in (IF IsOpen(cfd, setup.psfd_parent_fd) THEN {"EMFILE"} ELSE {"EBADF"}) :
                   WriteFail("PS_ERROR_KIND_DUP", e, child_fd)
             /\ c_scratch' = [c_scratch EXCEPT ![child_fd + 1] = -1]
             /\ step_failed' = TRUE
             /\ UNCHANGED <<cfd, child_fd>>
          \/ /\ allocated
             /\ setup.psfd_kind = "PS_CLOSE_FD"
             /\ c_scratch' = [c_scratch EXCEPT ![child_fd + 1] = -1]
             /\ cpc' = IF last THEN "phaseB" ELSE "phaseA"
             /\ child_fd' = IF last THEN 0 ELSE child_fd + 1
             /\ step_failed' = FALSE
             /\ UNCHANGED <<cfd, error>>
    /\ UNCHANGED <<pipe_buf, census_failed, c_handlers, c_sigmask>>
    /\ ChildFrame

\* A single pass that places the parent descriptor itself.
PhaseBSourceDirect(i) == Instr(i).psfd_parent_fd

\* The descriptor Phase B places at index i: scratch[child_fd].duplicated_fd.
PhaseBSource(i) == c_scratch[i + 1]

\* Phase B, one iteration: dup2 the holding descriptor onto the index, or
\* close the index.
PhaseB ==
    /\ cpc = "phaseB"
    /\ LET setup == Instr(child_fd)
           last == child_fd + 1 = psc_fd_setup_count
           next == IF last THEN AfterPhaseB ELSE "phaseB"
           nexti == IF last THEN StartIndex(AfterPhaseB) ELSE child_fd + 1
       IN \/ /\ setup.psfd_kind = "PS_MAP_FD"
             /\ IF c_scratch[child_fd + 1] > child_fd
                THEN /\ IsOpen(cfd, PhaseBSource(child_fd))
                     /\ cfd' = Dup2(cfd, PhaseBSource(child_fd), child_fd)
                     /\ cpc' = next
                     /\ child_fd' = nexti
                ELSE /\ cpc' = "trapped"
                     /\ cfd' = AllClosed
                     /\ UNCHANGED child_fd
             /\ step_failed' = FALSE
             /\ UNCHANGED error
          \/ /\ setup.psfd_kind = "PS_MAP_FD"
             /\ c_scratch[child_fd + 1] > child_fd
             /\ step_failed' = TRUE
             /\ \E e \in (IF IsOpen(cfd, PhaseBSource(child_fd)) THEN {"EBUSY"} ELSE {"EBADF"}) :
                   WriteFail("PS_ERROR_KIND_DUP2", e, child_fd)
             /\ UNCHANGED <<cfd, child_fd>>
          \/ /\ setup.psfd_kind = "PS_CLOSE_FD"
             /\ IF c_scratch[child_fd + 1] = -1
                THEN /\ cfd' = CloseFd(cfd, child_fd)
                     /\ cpc' = next
                     /\ child_fd' = nexti
                ELSE /\ cpc' = "trapped"
                     /\ cfd' = AllClosed
                     /\ UNCHANGED child_fd
             /\ step_failed' = FALSE
             /\ UNCHANGED error
    /\ UNCHANGED <<c_scratch, pipe_buf, census_failed, c_handlers, c_sigmask>>
    /\ ChildFrame

\* Whether the close loop goes on at index i when the census returned hi.
CloseLoopContinues(i, hi) == i < hi

\* The close loop, one evaluation of its condition and, when it holds, its
\* body: for (i = count; i < highest_possibly_open_fd(); i++)
\*           if (i != error_pipe) close(i);
CloseOther ==
    /\ cpc = "close_other"
    /\ \E how \in CensusOutcomes :
          /\ census_failed' = (census_failed \/ how # "ok")
          /\ IF CloseLoopContinues(child_fd, highest_possibly_open_fd(cfd, how))
             THEN /\ cfd' = IF child_fd # error_pipe THEN CloseFd(cfd, child_fd) ELSE cfd
                  /\ child_fd' = child_fd + 1
                  /\ UNCHANGED cpc
             ELSE /\ cpc' = AfterCloseOther
                  /\ child_fd' = 0
                  /\ UNCHANGED cfd
    /\ UNCHANGED <<c_scratch, error, pipe_buf, c_handlers, c_sigmask>>
    /\ step_failed' = FALSE
    /\ ChildFrame

\* err = chdir(config->psc_cwd);
Chdir ==
    /\ cpc = "chdir"
    /\ \/ /\ cpc' = "execve"
          /\ step_failed' = FALSE
          /\ UNCHANGED error
       \/ /\ WriteFail("PS_ERROR_KIND_CHDIR", "ENOENT", 0)
          /\ step_failed' = TRUE
    /\ UNCHANGED <<cfd, c_scratch, child_fd, pipe_buf, census_failed, c_handlers,
                   c_sigmask>>
    /\ ChildFrame

\* err = execve(...): the program image is replaced, or execve fails.
Execve ==
    /\ cpc = "execve"
    /\ \/ /\ cpc' = "execd"
          /\ cfd' = ExecTable(cfd)
          /\ c_handlers' = {}
          /\ step_failed' = FALSE
          /\ UNCHANGED error
       \/ /\ WriteFail("PS_ERROR_KIND_EXECVE", "ENOENT", 0)
          /\ step_failed' = TRUE
          /\ UNCHANGED <<cfd, c_handlers>>
    /\ UNCHANGED <<c_scratch, child_fd, pipe_buf, census_failed, c_sigmask>>
    /\ ChildFrame

\* The child goes on past the call of the routine, into the code that
\* follows the if: error_cleanup and the return to the caller.
ChildFallsThrough == "error_cleanup"

\* abort() right after setup_and_execve_child(...) in the child branch: a
\* child whose routine returned terminates.
ChildAfterRoutine == "aborted"

\* write_fail: write(error_pipe, &error, sizeof(error)); close(error_pipe);
\* the routine returns and the caller aborts the child.  The record goes into
\* the pipe when error_pipe still is the pipe's write end and the read end is
\* open.
WriteFailAndAbort ==
    /\ cpc = "write_fail"
    /\ pipe_buf' = IF IsOpen(cfd, error_pipe) /\ cfd[error_pipe].file = PipeWr
                      /\ HeldOpen(PipeRd)
                   THEN Append(pipe_buf, error)
                   ELSE pipe_buf
    /\ cfd' = AllClosed
    /\ cpc' = ChildAfterRoutine
    /\ UNCHANGED <<c_scratch, child_fd, error, census_failed, c_handlers,
                   c_sigmask, step_failed>>
    /\ ChildFrame

\* The new program exits; its descriptors are closed.
ProgramExit ==
    /\ cpc = "execd"
    /\ cfd' = AllClosed
    /\ cpc' = "exited"
    /\ UNCHANGED <<c_scratch, child_fd, error, pipe_buf, census_failed, c_handlers,
                   c_sigmask, step_failed>>
    /\ ChildFrame

ChildNext == SignalReset \/ SigprocMask \/ Setsid \/ PhaseA \/ PhaseB
               \/ CloseOther \/ Chdir \/ Execve \/ WriteFailAndAbort \/ ProgramExit

Next == ParentNext \/ ChildNext

Spec == Init /\ [][Next]_vars

\* The steps of the parent that do not depend on a call failing: every step
\* before the drain loop, and a read that returns once the pipe has
\* end-of-file or a record for it (reads are interrupted finitely often).
ParentProgress ==
    Pipe \/ SetCloexec \/ Calloc \/ Guard \/ Fork \/ ParentAfterFork \/ ReadDelivers

\* The steps of the child up to execve or its termination; the program it
\* starts may run for ever.
ChildSetupNext ==
    SignalReset \/ SigprocMask \/ Setsid \/ PhaseA \/ PhaseB \/ CloseOther
        \/ Chdir \/ Execve \/ WriteFailAndAbort

\* Both processes are scheduled: the parent thread goes on, and the child
\* completes execve or reaches write_fail and terminates.
LiveSpec == Init /\ [][Next]_vars /\ WF_vars(ParentProgress) /\ WF_vars(ChildSetupNext)

\* ------------------------------------- a concurrent call of another thread

\* Another thread of the process calls ps_spawn_process, with no
\* fd-instructions and no option set, while this call is under way.  The two
\* calls share the process's descriptor table; the steps of the other call
\* are those its descriptors go through.

\* What a step of the other call or of its child leaves alone.
OtherFrame ==
    UNCHANGED <<config, ppc, error_pid_fd, scratch, pid, out_error, ret, closes,
                frees, allocated, fork_calls, failed_step, sigmask, old_sigmask,
                child_vars, pipe_buf, handlers, parse_vars, status_vars>>

\* int err = pipe(error_pid_fd);
OtherPipe ==
    /\ o_pc = "pipe"
    /\ LET r == LowestFree(pfd, 0)
           t == [pfd EXCEPT ![r] = [file |-> OtherPipeRd, cloexec |-> FALSE]]
           w == LowestFree(t, 0)
       IN /\ pfd' = [t EXCEPT ![w] = [file |-> OtherPipeWr, cloexec |-> FALSE]]
          /\ o_pid_fd' = <<r, w>>
    /\ o_pc' = "fcntl"
    /\ UNCHANGED <<ocpc, ocfd>>
    /\ OtherFrame

\* err = fcntl(error_pid_fd[1], F_SETFD, FD_CLOEXEC);
OtherSetCloexec ==
    /\ o_pc = "fcntl"
    /\ pfd' = [pfd EXCEPT ![o_pid_fd[2]].cloexec = TRUE]
    /\ o_pc' = "fork"
    /\ UNCHANGED <<o_pid_fd, ocpc, ocfd>>
    /\ OtherFrame

\* pid = fork(): the other call's child gets a copy of the table as it is
\* now, and closes its read end.
OtherFork ==
    /\ o_pc = "fork"
    /\ ocfd' = CloseFd(pfd, o_pid_fd[1])
    /\ ocpc' = "setup"
    /\ o_pc' = "restore"
    /\ UNCHANGED <<pfd, o_pid_fd>>
    /\ OtherFrame

\* The other call's parent branch: close(error_pid_fd[1]).
OtherParentAfterFork ==
    /\ o_pc = "restore"
    /\ pfd' = CloseFd(pfd, o_pid_fd[2])
    /\ o_pid_fd' = [o_pid_fd EXCEPT ![2] = ClearedFd(@)]
    /\ o_pc' = "read"
    /\ UNCHANGED <<ocpc, ocfd>>
    /\ OtherFrame

\* The other call's child completes its routine: its execve succeeds.
OtherExecve ==
    /\ ocpc = "setup"
    /\ ocfd' = ExecTable(ocfd)
    /\ ocpc' = "execd"
    /\ UNCHANGED <<pfd, o_pc, o_pid_fd>>
    /\ OtherFrame

\* The other call reads end-of-file and returns its pid.
OtherRead ==
    /\ o_pc = "read"
    /\ ~HeldOpen(OtherPipeWr)
    /\ pfd' = CloseFd(pfd, o_pid_fd[1])
    /\ o_pid_fd' = [o_pid_fd EXCEPT ![1] = ClearedFd(@)]
    /\ o_pc' = "returned"
    /\ UNCHANGED <<ocpc, ocfd>>
    /\ OtherFrame

\* The program of the other call exits.
OtherProgramExit ==
    /\ ocpc = "execd"
    /\ ocfd' = AllClosed
    /\ ocpc' = "exited"
    /\ UNCHANGED <<pfd, o_pc, o_pid_fd>>
    /\ OtherFrame

OtherNext ==
    OtherPipe \/ OtherSetCloexec \/ OtherFork \/ OtherParentAfterFork
        \/ OtherExecve \/ OtherRead \/ OtherProgramExit

\* Two calls with no fd-instructions and no option set.
InitRace ==
    /\ config = [psc_fd_setup_instructions |-> <<>>, psc_new_session |-> FALSE,
                 psc_close_other_fds |-> FALSE, psc_cwd |-> FALSE]
    /\ pfd \in ParentTables
    /\ ppc = "pipe"
    /\ o_pc = "pipe"
    /\ InitSpawnIdle
    /\ InitParseIdle
    /\ InitStatusIdle

\* The steps of this call and of its child for that configuration, and those
\* of the other call.
RaceNext ==
    Pipe \/ SetCloexec \/ Calloc \/ Guard \/ Fork \/ ParentAfterFork \/ Read
        \/ SignalReset \/ SigprocMask \/ Execve \/ WriteFailAndAbort \/ ProgramExit
        \/ OtherNext

RaceSpec == InitRace /\ [][RaceNext]_vars

\* ------------------------------------------------------ positive_int_parse

\* Characters, by their codes: ' ', '-', '/', '0', '1', '9', ':'.
Alphabet == {32, 45, 47, 48, 49, 57, 58}

Strings == UNION {[1..n -> Alphabet] : n \in 0..MaxLen}

InitParse ==
    /\ NoSpawn
    /\ InitStatusIdle
    /\ parse_in \in Strings
    /\ parse_ret = -2

\* One call of positive_int_parse.
Parse ==
    /\ parse_ret = -2
    /\ parse_ret' = positive_int_parse(parse_in)
    /\ UNCHANGED <<parse_in, spawn_vars, status_vars>>

ParseSpec == InitParse /\ [][Parse]_vars

\* -------------------------------------------------- ps_convert_exit_status

\* The status macros of <sys/wait.h>, on the low 16 bits of the status word.
WTERMSIG(status) == status % 128

WIFEXITED(status) == WTERMSIG(status) = 0

WEXITSTATUS(status) == (status \div 256) % 256

\* (signed char) of a value in 0..255.
SignedChar(x) == IF x >= 128 THEN x - 256 ELSE x

\* x >> 1 of a signed value.
ShiftRight1(x) == (x - (x % 2)) \div 2

\* The macro with the cast to signed char left out.
WIFSIGNALED_NoCast(status) == ShiftRight1((status % 128) + 1) > 0

\* (((signed char) (((status) & 0x7f) + 1) >> 1) > 0)
WIFSIGNALED(status) == ShiftRight1(SignedChar((status % 128) + 1)) > 0

ps_convert_exit_status(status) ==
    IF WIFEXITED(status)
    THEN [done |-> TRUE, has_exited |-> TRUE, is_exit_code |-> TRUE,
          code |-> WEXITSTATUS(status)]
    ELSE IF WIFSIGNALED(status)
    THEN [done |-> TRUE, has_exited |-> TRUE, is_exit_code |-> FALSE,
          code |-> WTERMSIG(status)]
    ELSE [done |-> TRUE, has_exited |-> FALSE, is_exit_code |-> FALSE, code |-> -1]

InitStatus ==
    /\ NoSpawn
    /\ InitParseIdle
    /\ in_status \in 0..MaxStatus
    /\ decoded = NotDecoded

\* One call of ps_convert_exit_status.
ConvertExitStatus ==
    /\ ~decoded.done
    /\ decoded' = ps_convert_exit_status(in_status)
    /\ UNCHANGED <<in_status, spawn_vars, parse_vars>>

StatusSpec == InitStatus /\ [][ConvertExitStatus]_vars

\* ------------------------------------------------------------------ claims

\* The file child descriptor i must refer to in the new program, from the
\* descriptor table the child started with at fork.
InstructionHonoured(i) ==
    IF Instr(i).psfd_kind = "PS_MAP_FD"
    THEN /\ cfd[i].file # NoFile
         /\ cfd[i].file = fork_fds[Instr(i).psfd_parent_fd].file
    ELSE cfd[i].file = NoFile

\* Every mapped parent descriptor was open in the caller when
\* ps_spawn_process was called: at fork it referred to a file of the
\* caller's, not to nothing and not to an end of the error pipe.
MappedSourcesOpenAtCall ==
    \A i \in 0..(psc_fd_setup_count - 1) :
        Instr(i).psfd_kind = "PS_MAP_FD" =>
            fork_fds[Instr(i).psfd_parent_fd].file \notin {NoFile, PipeRd, PipeWr}

C2_ChildErrorReported ==
    (ppc = "returned" /\ cpc = "aborted" /\ failed_step = "none") =>
        (ret = 0 /\ out_error = error)

\* C3: the parent returns the child's pid only once the child has replaced
\* its program image (the scratch array having been allocated).
C3_PidOnlyAfterExec ==
    (ppc = "returned" /\ ret = ChildPid /\ allocated) => cpc \in {"execd", "exited"}

\* C4: when the child's execve succeeded, no error record was written, and
\* a parent that has returned returned the child's pid and no error.
C4_ExecSuccessReturnsPid ==
    cpc \in {"execd", "exited"} =>
        /\ pipe_buf = <<>>
        /\ ppc = "returned" => (ret = ChildPid /\ out_error = NoError)

\* C5: with psc_close_other_fds set and every census having succeeded, no
\* descriptor at or above the instruction count is open in the new program.
C5_OtherFdsClosed ==
    (cpc = "execd" /\ config.psc_close_other_fds /\ ~census_failed) =>
        \A fd \in Fds : fd >= psc_fd_setup_count => cfd[fd].file = NoFile

\* C6: when ps_spawn_process has returned 0, no child it created is running
\* or has run the target program.
C6_NoProcessAfterError ==
    (ppc = "returned" /\ ret = 0) => cpc \notin {"execd", "exited"}

\* C7: the parent closes each pipe end it opened exactly once and frees the
\* scratch block exactly once on every return path, never more than once at
\* any point, and reads only from a read end that is still open.
C7_ParentReleasesOnce ==
    /\ closes[1] <= 1 /\ closes[2] <= 1 /\ frees <= 1
    /\ ppc = "read" => (ReadEnd \in Fds /\ pfd[ReadEnd].file = PipeRd)
    /\ ppc = "returned" =>
          /\ closes = IF failed_step = "pipe" THEN <<0, 0>> ELSE <<1, 1>>
          /\ frees = IF allocated THEN 1 ELSE 0
          /\ \A fd \in Fds : pfd[fd].file \notin {PipeRd, PipeWr}

\* The parent returned the error a child reported, with a scratch block
\* that had been allocated.
C7_Witness ==
    /\ ppc = "returned"
    /\ ret = 0
    /\ cpc = "aborted"
    /\ out_error = error
    /\ allocated

\* The error kind ps_spawn_process reports for a failed step before fork.
KindOfStep(step) ==
    CASE step = "pipe" -> "PS_ERROR_KIND_PIPE"
      [] step = "fcntl" -> "PS_ERROR_KIND_FCNTL"
      [] step = "guard" -> "PS_ERROR_KIND_SIGMASK_THREAD"
      [] OTHER -> "NONE"

\* C8: fork is called at most once, and when pipe creation, the pipe flag
\* or the signal guard failed it was not called: the call has returned 0
\* with the error kind of the failed step and no child exists.
C8_NoForkAfterEarlyFailure ==
    /\ fork_calls <= 1
    /\ failed_step \in {"pipe", "fcntl", "guard"} =>
          /\ fork_calls = 0
          /\ cpc = "none"
          /\ ppc = "returned"
          /\ ret = 0
          /\ out_error.kind = KindOfStep(failed_step)

\* The signal guard failed and the call has returned.
C8_Witness == failed_step = "guard" /\ ppc = "returned"

\* The reference parser: the value of a non-empty string of digits, -1 for
\* the empty string and for a string with a character that is no digit.
RECURSIVE DigitsValue(_)
DigitsValue(s) ==
    IF s = <<>> THEN 0 ELSE DigitsValue(SubSeq(s, 1, Len(s) - 1)) * 10 + (s[Len(s)] - 48)

ReferenceParse(s) ==
    IF s = <<>> \/ \E i \in 1..Len(s) : s[i] \notin 48..57 THEN -1 ELSE DigitsValue(s)

\* C9: positive_int_parse returns what the reference parser returns.
C9_ParseAgreesWithReference ==
    parse_ret # -2 => parse_ret = ReferenceParse(parse_in)

\* C10: a status whose low seven bits are 0 (normal exit) decodes to
\* (true, true, exit code), one whose low seven bits are a signal number
\* 1..126 to (true, false, that number), every other one (stopped,
\* continued) to (false, false, -1).
C10_ExitStatusDecoded ==
    decoded.done =>
        LET low == in_status % 128
            high == (in_status \div 256) % 256
        IN /\ low = 0 => decoded = [done |-> TRUE, has_exited |-> TRUE,
                                    is_exit_code |-> TRUE, code |-> high]
           /\ low \in 1..126 => decoded = [done |-> TRUE, has_exited |-> TRUE,
                                           is_exit_code |-> FALSE, code |-> low]
           /\ low = 127 => decoded = [done |-> TRUE, has_exited |-> FALSE,
                                      is_exit_code |-> FALSE, code |-> -1]
           /\ ~decoded.has_exited => (decoded.code = -1 /\ ~decoded.is_exit_code)

\* A stopped status (W_STOPCODE(SIGSTOP) = 0x137f) has been decoded.
C10_Witness == decoded.done /\ in_status = 19 * 256 + 127

\* C11: whenever the close loop consults highest_possibly_open_fd, the value
\* is non-negative for every outcome of the descriptor listing and is the
\* descriptor-table size when the directory cannot be opened; and the step
\* that consults it only goes on with the loop or to the next step, building
\* no error record.
C11_CensusNeverNegative ==
    [][cpc = "close_other" =>
          /\ \A how \in CensusOutcomes : highest_possibly_open_fd(cfd, how) >= 0
          /\ highest_possibly_open_fd(cfd, "open_failed") = DTableSize
          /\ cpc' \in {"close_other", AfterCloseOther}
          /\ error' = error]_vars

\* The close loop has run up to the descriptor-table size, which only the
\* fallback value lets it do.
C11_Witness ==
    /\ cpc = "close_other"
    /\ child_fd = DTableSize

\* Phase B has run over every index and the child has not yet called execve.
PhaseBCompleted ==
    /\ psc_fd_setup_count > 0
    /\ cpc \in {"close_other", "chdir", "execve"}

\* The holding-area descriptors Phase A created: the slots of the Maps.
HoldingFds ==
    {c_scratch[i + 1] : i \in {j \in 0..(psc_fd_setup_count - 1) :
                                  Instr(j).psfd_kind = "PS_MAP_FD"}}

\* C16 as stated: once Phase B has completed, no holding-area descriptor
\* created in Phase A is still open in the child.
C16_HoldingClosedAfterPhaseB ==
    PhaseBCompleted => \A h \in HoldingFds : ~IsOpen(cfd, h)

\* C16, amended: Phase B duplicates each holding-area descriptor onto its
\* index and leaves it open; it carries the close-on-exec flag from Phase A
\* on, so that none is open once the child has replaced its program image.
C16_HoldingClosedOnExec ==
    /\ PhaseBCompleted => \A h \in HoldingFds : IsOpen(cfd, h) => cfd[h].cloexec
    /\ cpc = "execd" => \A h \in HoldingFds : ~IsOpen(cfd, h)

\* The program image was replaced after a Map was placed, without the close
\* loop.
C16_Witness ==
    /\ cpc = "execd"
    /\ ~config.psc_close_other_fds
    /\ HoldingFds # {}

\* C17: highest_possibly_open_fd_dir_linux returns -1 whenever it fails:
\* when the directory cannot be opened and when a read of it fails.
C17_CensusFailureIsNegative ==
    cpc = "close_other" =>
        /\ highest_possibly_open_fd_dir_linux(cfd, "open_failed") = -1
        /\ highest_possibly_open_fd_dir_linux(cfd, "read_failed") = -1

\* C20: at the start of Phase B and all through it, the slot of a Map is a
\* descriptor at or above the instruction count, above its index and
\* different from every other slot, the slot of a Close is -1, and no
\* precondition of Phase B has trapped.
C20_ScratchSlotsCollisionFree ==
    /\ cpc # "trapped"
    /\ cpc = "phaseB" =>
          \A i \in 0..(psc_fd_setup_count - 1) :
              IF Instr(i).psfd_kind = "PS_MAP_FD"
              THEN /\ c_scratch[i + 1] >= psc_fd_setup_count
                   /\ c_scratch[i + 1] > i
                   /\ \A k \in 0..(psc_fd_setup_count - 1) :
                          k # i => c_scratch[k + 1] # c_scratch[i + 1]
              ELSE c_scratch[i + 1] = -1

\* Phase B starts on a list with a Close and a Map whose parent descriptor
\* is also a target index.
C20_Witness ==
    /\ cpc = "phaseB"
    /\ child_fd = 0
    /\ \E i, k \in 0..(psc_fd_setup_count - 1) :
          /\ Instr(i).psfd_kind = "PS_CLOSE_FD"
          /\ Instr(k).psfd_kind = "PS_MAP_FD"
          /\ Instr(k).psfd_parent_fd < psc_fd_setup_count

\* The positions of a child: none before fork, the steps of the routine,
\* the new program, and the ways it terminates.
ChildSetupPositions ==
    {"signal_reset", "sigprocmask", "setsid", "phaseA", "phaseB", "close_other",
     "chdir", "execve", "write_fail"}

ChildTerminated == {"aborted", "crashed", "trapped"}

\* C14: the child is only ever in its routine, in the new program or
\* terminated; a terminated child takes no further step; and a step of the
\* child never does the parent's work: it does not return from
\* ps_spawn_process, close the parent's pipe ends, free the scratch block,
\* store into *out_error or take a record out of the error pipe.
C14_ChildNeverInParentFlow ==
    [][/\ cpc' \in {"none", "execd", "exited"} \cup ChildSetupPositions
                  \cup ChildTerminated
       /\ cpc \in ChildTerminated => cpc' = cpc
       /\ cpc' # cpc =>
             /\ cpc = "none" \/ UNCHANGED <<ppc, ret, pid>>
             /\ UNCHANGED <<closes, frees, out_error, error_pid_fd, scratch>>
             /\ Len(pipe_buf') >= Len(pipe_buf)]_vars

\* The child's routine returned after a failed step and the child has
\* terminated, its parent still being in the call.
C14_Witness ==
    /\ cpc = "aborted"
    /\ ppc = "read"

\* C12: in the child, from fork until execve, every signal outside the
\* allow-list is blocked or has its default disposition.
C12_NoInheritedHandlerCanRun ==
    cpc \in ChildSetupPositions =>
        \A sig \in Signals \ AllowList : sig \in c_sigmask \/ sig \notin c_handlers

\* C13: when ps_spawn_process has returned, the calling thread's signal mask
\* is the mask it had when the call was entered.
C13_MaskRestoredOnReturn ==
    ppc = "returned" => sigmask = MaskAtCall

\* Whether the configuration asks for the step.
StepConfigured(step) ==
    CASE step = "setsid" -> config.psc_new_session
      [] step \in {"phaseA", "phaseB"} -> psc_fd_setup_count > 0
      [] step = "close_other" -> config.psc_close_other_fds
      [] step = "chdir" -> config.psc_cwd
      [] OTHER -> TRUE

\* The steps of the routine for the configuration, in their order.
StepsInOrder ==
    SelectSeq(<<"signal_reset", "sigprocmask", "setsid", "phaseA", "phaseB",
                "close_other", "chdir", "execve">>, StepConfigured)

StepIndex(step) == CHOOSE i \in 1..Len(StepsInOrder) : StepsInOrder[i] = step

\* C15: the child goes from a step to the step that follows it in the fixed
\* order or, when the step's call failed and only then, to write_fail; from
\* write_fail it goes nowhere but to its end; the program image is replaced
\* from the execve step only; and a record enters the error pipe only from
\* write_fail, into a pipe that holds none.
C15_StepsInOrderUntilFirstFailure ==
    [][/\ (cpc # cpc' /\ cpc \in ChildSetupPositions \ {"write_fail"}) =>
             \/ /\ cpc' = "write_fail"
                /\ step_failed'
             \/ /\ cpc' \in ChildSetupPositions \ {"write_fail"}
                /\ StepIndex(cpc') = StepIndex(cpc) + 1
                /\ ~step_failed'
             \/ /\ cpc' = "execd"
                /\ cpc = "execve"
             \/ cpc' \in {"crashed", "trapped"}
       /\ cpc = "write_fail" => cpc' \in {"write_fail", "aborted"}
       /\ Len(pipe_buf') > Len(pipe_buf) =>
             (cpc = "write_fail" /\ pipe_buf = <<>>)]_vars

C19_CallsIndependent ==
    /\ ocpc = "execd" => \A fd \in Fds : ocfd[fd].file # PipeWr
    /\ cpc = "execd" => \A fd \in Fds : cfd[fd].file # OtherPipeWr
    /\ (ppc = "read" /\ cpc \in {"execd", "exited"} /\ pipe_buf = <<>>) =>
          ~HeldOpen(PipeWr)

====
